---------------------------- MODULE Spec2Model ----------------------------
(***************************************************************************)
(* vk_mem_alloc.hpp as the preprocessor sees it.                           *)
(*                                                                         *)
(* The header is eighteen lines of preprocessor directives.  The state is  *)
(* the macro table of the translation unit, the stack of files being       *)
(* processed (each with the line the preprocessor has reached) and the     *)
(* list of headers this file has included so far.  Every directive of      *)
(* the header is one action, taken when the top of the stack is            *)
(* vk_mem_alloc.hpp at that line.  The including translation unit and the  *)
(* bodies of the six included headers are the environment.                 *)
(***************************************************************************)
EXTENDS Naturals, Sequences, FiniteSets

VARIABLES
    guard,          \* VULKAN_MEMORY_ALLOCATOR_HPP is defined
    ns,             \* replacement of VMA_HPP_NAMESPACE, or Undefined
    nss,            \* VMA_HPP_NAMESPACE_STRING: [defined, body (its replacement list)]
    stringify,      \* VULKAN_HPP_STRINGIFY is defined (vulkan.hpp was processed)
    projectMacros,  \* other configuration macros the including project defined
    resolvable,     \* the headers the include path resolves
    stack,          \* files being processed, innermost last: [file, pc]
    included,       \* headers included by vk_mem_alloc.hpp, in order: [hdr, ns]
    error,          \* NoError, or what stopped the build
    inclusions,     \* #include "vk_mem_alloc.hpp" directives of the translation unit so far
    completed,      \* processings of vk_mem_alloc.hpp that reached the final #endif
    entryNs,        \* history: ns when the body of the header was first entered
    expansion       \* last expansion of VMA_HPP_NAMESPACE_STRING: [at (ns then), text]

vars == <<guard, ns, nss, stringify, projectMacros, resolvable, stack, included,
          error, inclusions, completed, entryNs, expansion>>

macros == <<guard, ns, nss, stringify>>

----------------------------------------------------------------------------
(* Bounds *)

MaxIncludes == 2

IncludeDepthLimit == 5

----------------------------------------------------------------------------
(* Names *)

Self == "vk_mem_alloc.hpp"

NativeHeader == "vk_mem_alloc.h"

VulkanHeader == "vulkan/vulkan.hpp"

DependencyHeaders == <<NativeHeader, VulkanHeader>>

DownstreamHeaders ==
    <<"vk_mem_alloc_enums.hpp", "vk_mem_alloc_handles.hpp",
      "vk_mem_alloc_structs.hpp", "vk_mem_alloc_funcs.hpp">>

Range(s) == {s[i] : i \in 1..Len(s)}

Headers == Range(DependencyHeaders) \cup Range(DownstreamHeaders)

DefaultNamespace == "vma"

Undefined == "<undefined>"

Names == {DefaultNamespace, "myvma", "alloc"}

OtherMacros == {"VULKAN_HPP_NO_EXCEPTIONS", "VMA_STATIC_VULKAN_FUNCTIONS"}

NoError == "<none>"

TooDeep == "<include nested too deeply>"

NotEntered == "<not entered>"

NoExpansion == [at |-> Undefined, text |-> <<>>]

----------------------------------------------------------------------------
(* Macro expansion *)

\* The # operator: the spelling of the argument between double quotes.
Stringize(text) == "\"" \o text \o "\""

\* Full macro replacement of an identifier, as done on a macro argument that
\* is not an operand of # or ##.
ExpandIdentifier(tok, nsVal) ==
    IF tok = "VMA_HPP_NAMESPACE" /\ nsVal # Undefined THEN nsVal ELSE tok

\* vulkan.hpp: #define VULKAN_HPP_STRINGIFY2( text ) #text
VULKAN_HPP_STRINGIFY2(text) == Stringize(text)

\* vulkan.hpp: #define VULKAN_HPP_STRINGIFY( text ) VULKAN_HPP_STRINGIFY2( text )
\* The argument is replaced before it is substituted.
VULKAN_HPP_STRINGIFY(text, nsVal) == VULKAN_HPP_STRINGIFY2(ExpandIdentifier(text, nsVal))

\* Rescanning a replacement list at the point of expansion: an invocation of
\* one of the two function-like macros of vulkan.hpp is replaced, any other
\* identifier is replaced if it names an object-like macro.
Rescan(body, nsVal, strDef) ==
    IF strDef /\ Len(body) = 4 /\ body[2] = "(" /\ body[4] = ")"
              /\ body[1] = "VULKAN_HPP_STRINGIFY"
    THEN <<VULKAN_HPP_STRINGIFY(body[3], nsVal)>>
    ELSE IF strDef /\ Len(body) = 4 /\ body[2] = "(" /\ body[4] = ")"
                   /\ body[1] = "VULKAN_HPP_STRINGIFY2"
    THEN <<VULKAN_HPP_STRINGIFY2(body[3])>>
    ELSE [i \in 1..Len(body) |-> ExpandIdentifier(body[i], nsVal)]

\* The tokens VMA_HPP_NAMESPACE_STRING expands to under a macro table.
ExpandNamespaceString(nssVal, nsVal, strDef) ==
    IF nssVal.defined THEN Rescan(nssVal.body, nsVal, strDef)
    ELSE <<"VMA_HPP_NAMESPACE_STRING">>

----------------------------------------------------------------------------
(* The stack of files *)

Processing == stack # <<>>

Top == stack[Len(stack)]

AtLine(n) == Processing /\ error = NoError /\ Top.file = Self /\ Top.pc = n

Goto(n) == [stack EXCEPT ![Len(stack)].pc = n]

Pop == SubSeq(stack, 1, Len(stack) - 1)

Init ==
    /\ guard = FALSE
    /\ ns = Undefined
    /\ nss = [defined |-> FALSE, body |-> <<>>]
    /\ stringify = FALSE
    /\ projectMacros = {}
    /\ resolvable \in SUBSET Headers
    /\ stack = <<>>
    /\ included = <<>>
    /\ error = NoError
    /\ inclusions = 0
    /\ completed = 0
    /\ entryNs = NotEntered
    /\ expansion = NoExpansion

----------------------------------------------------------------------------
(* The including translation unit *)

TUReady == ~Processing /\ error = NoError

\* #define VMA_HPP_NAMESPACE n, before the header is first included.
TUDefineNamespace(n) ==
    /\ TUReady
    /\ inclusions = 0
    /\ ns = Undefined
    /\ ns' = n
    /\ UNCHANGED <<guard, nss, stringify, projectMacros, resolvable, stack, included,
                   error, inclusions, completed, entryNs, expansion>>

\* #undef VMA_HPP_NAMESPACE, #define VMA_HPP_NAMESPACE n, after an inclusion.
TURedefineNamespace(n) ==
    /\ TUReady
    /\ inclusions > 0
    /\ n # ns
    /\ ns' = n
    /\ UNCHANGED <<guard, nss, stringify, projectMacros, resolvable, stack, included,
                   error, inclusions, completed, entryNs, expansion>>

\* #define m, for a configuration macro this header does not name.
TUDefineOther(m) ==
    /\ TUReady
    /\ m \notin projectMacros
    /\ projectMacros' = projectMacros \cup {m}
    /\ UNCHANGED <<guard, ns, nss, stringify, resolvable, stack, included,
                   error, inclusions, completed, entryNs, expansion>>

\* #include "vk_mem_alloc.hpp"
TUInclude ==
    /\ TUReady
    /\ inclusions < MaxIncludes
    /\ inclusions' = inclusions + 1
    /\ stack' = <<[file |-> Self, pc |-> 1]>>
    /\ UNCHANGED <<guard, ns, nss, stringify, projectMacros, resolvable, included,
                   error, completed, entryNs, expansion>>

\* A use of VMA_HPP_NAMESPACE_STRING after the header has been processed.
TUExpand ==
    /\ TUReady
    /\ completed > 0
    /\ expansion' = [at |-> ns, text |-> ExpandNamespaceString(nss, ns, stringify)]
    /\ UNCHANGED <<guard, ns, nss, stringify, projectMacros, resolvable, stack,
                   included, error, inclusions, completed, entryNs>>

----------------------------------------------------------------------------
(* vk_mem_alloc.hpp, directive by directive *)

\* Faulty variant: a header that does not resolve is passed over, as under
\* #if __has_include.
IncludeDirectiveIfPresent(h, next) ==
    IF h \notin resolvable
    THEN /\ stack' = Goto(next)
         /\ UNCHANGED <<error, included>>
    ELSE IF Len(stack) >= IncludeDepthLimit
    THEN /\ error' = TooDeep
         /\ UNCHANGED <<stack, included>>
    ELSE /\ included' = Append(included, [hdr |-> h, ns |-> ns])
         /\ stack' = Append(Goto(next), [file |-> h, pc |-> 1])
         /\ UNCHANGED error

\* An include directive: the build stops if the header does not resolve (or
\* the nesting limit of the preprocessor is reached); else the header is
\* entered and processing resumes at line `next` when it ends.
IncludeDirective(h, next) ==
    IF h \notin resolvable
    THEN /\ error' = h
         /\ UNCHANGED <<stack, included>>
    ELSE IF Len(stack) >= IncludeDepthLimit
    THEN /\ error' = TooDeep
         /\ UNCHANGED <<stack, included>>
    ELSE /\ included' = Append(included, [hdr |-> h, ns |-> ns])
         /\ stack' = Append(Goto(next), [file |-> h, pc |-> 1])
         /\ UNCHANGED error

\* Faulty variant: the #ifndef tests a macro nothing defines.
IfndefGuardMisspelt ==
    /\ AtLine(1)
    /\ stack' = Goto(2)
    /\ entryNs' = IF entryNs = NotEntered THEN ns ELSE entryNs
    /\ UNCHANGED <<guard, ns, nss, stringify, projectMacros, resolvable, included,
                   error, inclusions, completed, expansion>>

\* line 1: #ifndef VULKAN_MEMORY_ALLOCATOR_HPP
IfndefGuard ==
    /\ AtLine(1)
    /\ stack' = IF guard THEN Goto(18) ELSE Goto(2)
    /\ entryNs' = IF ~guard /\ entryNs = NotEntered THEN ns ELSE entryNs
    /\ UNCHANGED <<guard, ns, nss, stringify, projectMacros, resolvable, included,
                   error, inclusions, completed, expansion>>

\* Faulty variant: the guard is tested and never defined.
DefineGuardMissing ==
    /\ AtLine(2)
    /\ stack' = Goto(4)
    /\ UNCHANGED <<guard, ns, nss, stringify, projectMacros, resolvable, included,
                   error, inclusions, completed, entryNs, expansion>>

\* line 2: #define VULKAN_MEMORY_ALLOCATOR_HPP
DefineGuard ==
    /\ AtLine(2)
    /\ guard' = TRUE
    /\ stack' = Goto(4)
    /\ UNCHANGED <<ns, nss, stringify, projectMacros, resolvable, included,
                   error, inclusions, completed, entryNs, expansion>>

\* line 4: #include "vk_mem_alloc.h"
IncludeNative ==
    /\ AtLine(4)
    /\ IncludeDirective(NativeHeader, 5)
    /\ UNCHANGED <<guard, ns, nss, stringify, projectMacros, resolvable,
                   inclusions, completed, entryNs, expansion>>

\* Faulty variant: the Vulkan binding is not included.
IncludeVulkanOmitted ==
    /\ AtLine(5)
    /\ stack' = Goto(7)
    /\ UNCHANGED <<guard, ns, nss, stringify, projectMacros, resolvable, included,
                   error, inclusions, completed, entryNs, expansion>>

\* line 5: #include <vulkan/vulkan.hpp>
IncludeVulkan ==
    /\ AtLine(5)
    /\ IncludeDirective(VulkanHeader, 7)
    /\ UNCHANGED <<guard, ns, nss, stringify, projectMacros, resolvable,
                   inclusions, completed, entryNs, expansion>>

\* Faulty variant: #if defined(VMA_HPP_NAMESPACE), the test inverted.
IfDefinedNamespace ==
    /\ AtLine(7)
    /\ stack' = IF ns # Undefined THEN Goto(8) ELSE Goto(9)
    /\ UNCHANGED <<guard, ns, nss, stringify, projectMacros, resolvable, included,
                   error, inclusions, completed, entryNs, expansion>>

\* Faulty variant: the default is defined whether or not the project chose a name.
AlwaysDefineNamespace ==
    /\ AtLine(7)
    /\ stack' = Goto(8)
    /\ UNCHANGED <<guard, ns, nss, stringify, projectMacros, resolvable, included,
                   error, inclusions, completed, entryNs, expansion>>

\* line 7: #if !defined(VMA_HPP_NAMESPACE)
IfNotDefinedNamespace ==
    /\ AtLine(7)
    /\ stack' = IF ns = Undefined THEN Goto(8) ELSE Goto(9)
    /\ UNCHANGED <<guard, ns, nss, stringify, projectMacros, resolvable, included,
                   error, inclusions, completed, entryNs, expansion>>

\* line 8: #define VMA_HPP_NAMESPACE vma
DefineNamespace ==
    /\ AtLine(8)
    /\ ns' = DefaultNamespace
    /\ stack' = Goto(9)
    /\ UNCHANGED <<guard, nss, stringify, projectMacros, resolvable, included,
                   error, inclusions, completed, entryNs, expansion>>

\* line 9: #endif
EndifNamespace ==
    /\ AtLine(9)
    /\ stack' = Goto(11)
    /\ UNCHANGED <<guard, ns, nss, stringify, projectMacros, resolvable, included,
                   error, inclusions, completed, entryNs, expansion>>

\* Faulty variant: the one-level macro, whose argument is the operand of #.
DefineNamespaceStringOneLevel ==
    /\ AtLine(11)
    /\ nss' = [defined |-> TRUE,
               body |-> <<"VULKAN_HPP_STRINGIFY2", "(", "VMA_HPP_NAMESPACE", ")">>]
    /\ stack' = Goto(13)
    /\ UNCHANGED <<guard, ns, stringify, projectMacros, resolvable, included,
                   error, inclusions, completed, entryNs, expansion>>

\* line 11: #define VMA_HPP_NAMESPACE_STRING VULKAN_HPP_STRINGIFY(VMA_HPP_NAMESPACE)
\* The replacement list is stored as written; nothing in it is replaced here.
DefineNamespaceString ==
    /\ AtLine(11)
    /\ nss' = [defined |-> TRUE,
               body |-> <<"VULKAN_HPP_STRINGIFY", "(", "VMA_HPP_NAMESPACE", ")">>]
    /\ stack' = Goto(13)
    /\ UNCHANGED <<guard, ns, stringify, projectMacros, resolvable, included,
                   error, inclusions, completed, entryNs, expansion>>

\* Faulty variant: the name of the header misspelt.
IncludeEnumsMisspelt ==
    /\ AtLine(13)
    /\ IncludeDirective("vk_mem_alloc_enum.hpp", 14)
    /\ UNCHANGED <<guard, ns, nss, stringify, projectMacros, resolvable,
                   inclusions, completed, entryNs, expansion>>

\* line 13: #include "vk_mem_alloc_enums.hpp"
IncludeEnums ==
    /\ AtLine(13)
    /\ IncludeDirective(DownstreamHeaders[1], 14)
    /\ UNCHANGED <<guard, ns, nss, stringify, projectMacros, resolvable,
                   inclusions, completed, entryNs, expansion>>

\* Faulty variant: the include depends on a configuration macro of the project.
IncludeHandlesConditional ==
    /\ AtLine(14)
    /\ IF "VULKAN_HPP_NO_EXCEPTIONS" \in projectMacros
       THEN stack' = Goto(15) /\ UNCHANGED <<included, error>>
       ELSE IncludeDirective(DownstreamHeaders[2], 15)
    /\ UNCHANGED <<guard, ns, nss, stringify, projectMacros, resolvable,
                   inclusions, completed, entryNs, expansion>>

\* line 14: #include "vk_mem_alloc_handles.hpp"
IncludeHandles ==
    /\ AtLine(14)
    /\ IncludeDirective(DownstreamHeaders[2], 15)
    /\ UNCHANGED <<guard, ns, nss, stringify, projectMacros, resolvable,
                   inclusions, completed, entryNs, expansion>>

\* line 15: #include "vk_mem_alloc_structs.hpp"
IncludeStructs ==
    /\ AtLine(15)
    /\ IncludeDirective(DownstreamHeaders[3], 16)
    /\ UNCHANGED <<guard, ns, nss, stringify, projectMacros, resolvable,
                   inclusions, completed, entryNs, expansion>>

\* line 16: #include "vk_mem_alloc_funcs.hpp"
IncludeFuncs ==
    /\ AtLine(16)
    /\ IncludeDirective(DownstreamHeaders[4], 18)
    /\ UNCHANGED <<guard, ns, nss, stringify, projectMacros, resolvable,
                   inclusions, completed, entryNs, expansion>>

\* line 18: #endif, and the end of the file
EndifGuard ==
    /\ AtLine(18)
    /\ stack' = Pop
    /\ completed' = completed + 1
    /\ UNCHANGED <<guard, ns, nss, stringify, projectMacros, resolvable, included,
                   error, inclusions, entryNs, expansion>>

----------------------------------------------------------------------------
(* The included headers *)

InHeader == Processing /\ error = NoError /\ Top.file \in Headers

\* An included header includes vk_mem_alloc.hpp again, directly or through
\* a header of its own, while the first processing is still in progress.
HeaderReincludes ==
    /\ InHeader
    /\ Top.pc = 1
    /\ IF Len(stack) >= IncludeDepthLimit
       THEN error' = TooDeep /\ UNCHANGED stack
       ELSE stack' = Append(Goto(2), [file |-> Self, pc |-> 1]) /\ UNCHANGED error
    /\ UNCHANGED <<guard, ns, nss, stringify, projectMacros, resolvable, included,
                   inclusions, completed, entryNs, expansion>>

\* The end of an included header.  vulkan.hpp has defined
\* VULKAN_HPP_STRINGIFY by then.
HeaderEnd ==
    /\ InHeader
    /\ stringify' = (stringify \/ Top.file = VulkanHeader)
    /\ stack' = Pop
    /\ UNCHANGED <<guard, ns, nss, projectMacros, resolvable, included,
                   error, inclusions, completed, entryNs, expansion>>

----------------------------------------------------------------------------

Directive ==
    \/ IfndefGuard
    \/ DefineGuard
    \/ IncludeNative
    \/ IncludeVulkan
    \/ IfNotDefinedNamespace
    \/ DefineNamespace
    \/ EndifNamespace
    \/ DefineNamespaceString
    \/ IncludeEnums
    \/ IncludeHandles
    \/ IncludeStructs
    \/ IncludeFuncs
    \/ EndifGuard

Preprocess == Directive \/ HeaderReincludes \/ HeaderEnd

Next ==
    \/ \E n \in Names : TUDefineNamespace(n)
    \/ \E n \in Names : TURedefineNamespace(n)
    \/ \E m \in OtherMacros : TUDefineOther(m)
    \/ TUInclude
    \/ TUExpand
    \/ IfndefGuard
    \/ DefineGuard
    \/ IncludeNative
    \/ IncludeVulkan
    \/ IfNotDefinedNamespace
    \/ DefineNamespace
    \/ EndifNamespace
    \/ DefineNamespaceString
    \/ IncludeEnums
    \/ IncludeHandles
    \/ IncludeStructs
    \/ IncludeFuncs
    \/ EndifGuard
    \/ HeaderReincludes
    \/ HeaderEnd

Spec == Init /\ [][Next]_vars

\* The preprocessor runs a file to its end: whenever a directive can be
\* processed, one is.
FairSpec == Spec /\ WF_vars(Preprocess)

----------------------------------------------------------------------------
(* What the claims speak of *)

\* The six include directives of the header, in the order of its lines.
IncludeOrder == DependencyHeaders \o DownstreamHeaders

\* The line of the include directive naming h.
IncludeLine(h) ==
    CASE h = NativeHeader -> 4
      [] h = VulkanHeader -> 5
      [] h = DownstreamHeaders[1] -> 13
      [] h = DownstreamHeaders[2] -> 14
      [] h = DownstreamHeaders[3] -> 15
      [] h = DownstreamHeaders[4] -> 16

IncludedHeaders == [i \in 1..Len(included) |-> included[i].hdr]

IsPrefix(s, t) == Len(s) <= Len(t) /\ \A i \in 1..Len(s) : s[i] = t[i]

Occurrences(h) == Cardinality({i \in 1..Len(included) : included[i].hdr = h})

Downstream(i) == included[i].hdr \in Range(DownstreamHeaders)

AllResolve == resolvable = Headers

\* The first inclusion by the translation unit is being processed.
FirstProcessing == Processing /\ inclusions = 1

\* The first processing has reached the final #endif and the translation unit goes on.
Processed == TUReady /\ completed > 0

AllIncluded == IncludedHeaders = IncludeOrder

----------------------------------------------------------------------------
\* C1: if VMA_HPP_NAMESPACE was undefined when the header was first
\* processed, every downstream header was included with VMA_HPP_NAMESPACE
\* defined as vma, and it is vma from the include of the first downstream
\* header to the final #endif of that processing and when the translation
\* unit goes on after it.
C1_DefaultNamespace ==
    /\ [](entryNs = Undefined =>
            /\ \A i \in 1..Len(included) :
                  Downstream(i) => included[i].ns = DefaultNamespace
            /\ (FirstProcessing /\ stack[1].pc \in {13, 14, 15, 16, 18}) =>
                  ns = DefaultNamespace)
    /\ [][(entryNs = Undefined /\ FirstProcessing /\ Len(stack) = 1 /\ AtLine(18)) =>
            (TUReady' /\ ns' = DefaultNamespace)]_vars

C1_Witness ==
    /\ entryNs = Undefined
    /\ FirstProcessing /\ Len(stack) = 1 /\ stack[1].pc = 18
    /\ AllIncluded
    /\ ns = DefaultNamespace

\* C2: if the project defined VMA_HPP_NAMESPACE as N before the header was
\* first processed, it is N throughout that processing and when the
\* translation unit goes on after it, and every header was included with it
\* defined as N.
C2_OverrideKept ==
    /\ [](entryNs \in Names =>
            /\ \A i \in 1..Len(included) : included[i].ns = entryNs
            /\ FirstProcessing => ns = entryNs)
    /\ [][(entryNs \in Names /\ FirstProcessing /\ Len(stack) = 1 /\ AtLine(18)) =>
            (TUReady' /\ ns' = entryNs)]_vars

C2_Witness ==
    /\ entryNs = "myvma"
    /\ FirstProcessing /\ Len(stack) = 1 /\ stack[1].pc = 18
    /\ AllIncluded
    /\ \A i \in 1..Len(included) : included[i].ns = "myvma"

\* C3: after the header has been processed, VMA_HPP_NAMESPACE_STRING expands
\* to the string literal of the value VMA_HPP_NAMESPACE has at the point of
\* expansion, never to "VMA_HPP_NAMESPACE" and never to an earlier value.
C3_StringMatchesNamespace ==
    /\ Processed =>
          ExpandNamespaceString(nss, ns, stringify) = <<Stringize(ns)>>
    /\ expansion # NoExpansion =>
          /\ expansion.text = <<Stringize(expansion.at)>>
          /\ expansion.text # <<Stringize("VMA_HPP_NAMESPACE")>>

C3_Witness ==
    /\ entryNs = Undefined
    /\ ns = "alloc"
    /\ expansion = [at |-> "alloc", text |-> <<"\"alloc\"">>]

\* C4: a processing of the header after the first goes from line 1 straight
\* to the final #endif and changes no macro and includes nothing, and no
\* header is included twice however often the header is included.
C4_ReinclusionNoOp ==
    /\ [][(AtLine(1) /\ entryNs # NotEntered) =>
            /\ stack' = Goto(18)
            /\ UNCHANGED <<macros, included, error>>]_vars
    /\ [][AtLine(18) => (stack' = Pop /\ UNCHANGED <<macros, included, error>>)]_vars
    /\ [](\A h \in Headers : Occurrences(h) <= 1)

C4_Witness ==
    /\ TUReady
    /\ inclusions = 2
    /\ completed >= 2
    /\ AllIncluded

\* C5: whatever macros the project defined, the headers this file has
\* included are a prefix of its six includes in the order of its lines, and
\* once the first processing is through, all four downstream headers were
\* included, each once, in that order.
C5_UnconditionalIncludes ==
    /\ IsPrefix(IncludedHeaders, IncludeOrder)
    /\ Processed => SubSeq(IncludedHeaders, 3, Len(included)) = DownstreamHeaders

C5_Witness ==
    /\ Processed
    /\ projectMacros = OtherMacros
    /\ entryNs = "alloc"
    /\ SubSeq(IncludedHeaders, 3, Len(included)) = DownstreamHeaders

\* C6: when all six headers resolve, no processing of the header reaches an
\* error state, and every processing that begins reaches the final #endif.
C6_CompilesWhenResolved ==
    /\ [](AllResolve => error = NoError)
    /\ (AllResolve /\ Processing) ~> (AllResolve /\ Processed)

C6_Witness ==
    /\ AllResolve
    /\ Processed
    /\ inclusions = 1
    /\ entryNs \in Names
    /\ expansion = NoExpansion

\* C7: a header that does not resolve stops the build at its include
\* directive: it is not entered, nothing after it is included, nothing else
\* is included in its place, and nothing is processed after the error.
C7_MissingHeaderStops ==
    /\ \A i \in 1..Len(included) : included[i].hdr \in resolvable
    /\ \A i \in 1..Len(included) : \A j \in 1..Len(IncludeOrder) :
          included[i].hdr = IncludeOrder[j] => \A k \in 1..j : IncludeOrder[k] \in resolvable
    /\ error # NoError =>
          /\ error \in Headers \ resolvable
          /\ Top.file = Self /\ Top.pc = IncludeLine(error)
          /\ ~ENABLED Next

C7_Witness ==
    /\ error = DownstreamHeaders[3]
    /\ IncludedHeaders = SubSeq(IncludeOrder, 1, 4)

\* C8: while a downstream header is processed, VMA_HPP_NAMESPACE and
\* VMA_HPP_NAMESPACE_STRING are defined and both dependency headers have
\* been processed to their end; the steps before happen in the order of the
\* lines.
C8_FixedOrder ==
    /\ IsPrefix(IncludedHeaders, IncludeOrder)
    /\ \A d \in 1..Len(stack) :
          /\ stack[d].file \in Range(DownstreamHeaders) =>
                /\ ns # Undefined
                /\ nss.defined
                /\ stringify
                /\ Len(included) >= 2
                /\ \A e \in 1..Len(stack) : stack[e].file \notin Range(DependencyHeaders)
          /\ stack[d].file = VulkanHeader =>
                /\ ~nss.defined
                /\ Len(included) = 2
          /\ stack[d].file = NativeHeader =>
                /\ ~nss.defined
                /\ Len(included) = 1
    /\ nss.defined => (ns # Undefined /\ stringify)

C8_Witness ==
    /\ Processing
    /\ Top.file = DownstreamHeaders[1]
    /\ entryNs = Undefined
    /\ ns = DefaultNamespace
    /\ nss.defined

\* C9: the guard is defined before anything is included, so a nested
\* inclusion of the header while its first processing is in progress goes
\* from line 1 to the final #endif: at most one processing is inside the
\* body, the nesting stays within three files, no header is included twice,
\* and every processing ends.
C9_NestedInclusionNoOp ==
    /\ [](included # <<>> => guard)
    /\ [](\A d \in 1..Len(stack) :
            (stack[d].file = Self /\ d > 1) => stack[d].pc \in {1, 18})
    /\ [](Len(stack) <= 3 /\ error # TooDeep)
    /\ [](\A h \in Headers : Occurrences(h) <= 1)
    /\ Processing ~> (~Processing \/ error # NoError)

C9_Witness ==
    /\ Len(stack) = 3
    /\ stack[1].file = Self /\ stack[1].pc = 15
    /\ stack[2].file = DownstreamHeaders[2]
    /\ stack[3].file = Self /\ stack[3].pc = 18

=============================================================================
